---- MODULE Spec2Model ----
(***************************************************************************)
(* Quake Watch (src/main.py): the monitoring loop of QuakeWatchApp, the    *)
(* user actions start(), stop() and clear() that run on the Tk thread, the *)
(* Tk callbacks scheduled by _add_row, and the location handlers           *)
(* _on_country and _use_my_location.                                       *)
(*                                                                         *)
(* Conventions of the model:                                               *)
(*  - a magnitude is held as an integer number of tenths (6.1 is 61);      *)
(*  - coordinates lie on a small integer grid, and the great-circle        *)
(*    distance is replaced by 100 km per grid step;                        *)
(*  - a table row and a chart point are held by the id of their event;     *)
(*  - a _loop thread takes a step of its own for the while test with the   *)
(*    parse of the settings, for the fetch, for the evaluation of a record *)
(*    up to the read of seen_ids at line 265, for the writes of lines      *)
(*    266-268, for the test of line 269, for the beep, and for the end of  *)
(*    the for statement, so that other threads run between the read of     *)
(*    seen_ids and its update;                                             *)
(*  - the handlers of the Tk thread (start, stop, clear, a queued row      *)
(*    insertion, the location handlers) are single steps;                  *)
(*  - Spec is the monitoring with the observer where the entry fields put  *)
(*    it; LocationSpec is the location handlers alone;                     *)
(*  - stopped, treated, beeps, attempts and located record history and are *)
(*    read by no action.                                                   *)
(***************************************************************************)
EXTENDS Integers, Sequences, FiniteSets, TLC

\* ------------------------------------------------------------------ bounds

\* start() is pressed at most MaxStarts times.
MaxStarts == 2

\* At most MaxRows rows are in the table or queued for it at a time.
MaxRows == 2

\* The page sizes a paginated display is compared with: 1..MaxPageSize.
MaxPageSize == 2

\* ------------------------------------------------------- program constants

\* self.alert_threshold = 5.5, in tenths.
alert_threshold == 55

\* max(15, int(float(...))): the lower clamp of the refresh interval.
MinInterval == 15

\* The _loop threads that can be alive at a time: start() takes the first
\* of them that is not running.
Threads == {1, 2}

\* ------------------------------------------------------------ the feed

\* The events the feed can carry.  "mag" is <<m>> for the number m and <<>>
\* for null.  s2 lies on the alert threshold; w1 lies on the minimum
\* magnitude and on the radius of the default settings; f1 is in range and
\* abroad; o1 is strong and out of the radius; lo has no magnitude; bad has
\* no "properties".
\* "wellformed" is FALSE for a record without the keys lines 256-258 read.
Catalogue ==
  [ s1  |-> [mag |-> <<61>>,    qlat |-> 1, qlon |-> 2, country |-> "Philippines", t |-> 3, wellformed |-> TRUE],
    s2  |-> [mag |-> <<55>>,    qlat |-> 2, qlon |-> 1, country |-> "Philippines", t |-> 2, wellformed |-> TRUE],
    w1  |-> [mag |-> <<30>>,    qlat |-> 1, qlon |-> 4, country |-> "Philippines", t |-> 1, wellformed |-> TRUE],
    f1  |-> [mag |-> <<61>>,    qlat |-> 3, qlon |-> 1, country |-> "Japan",       t |-> 4, wellformed |-> TRUE],
    o1  |-> [mag |-> <<61>>,    qlat |-> 5, qlon |-> 5, country |-> "Philippines", t |-> 5, wellformed |-> TRUE],
    lo  |-> [mag |-> <<>>,   qlat |-> 1, qlon |-> 1, country |-> "Philippines", t |-> 6, wellformed |-> TRUE],
    bad |-> [mag |-> <<>>,   qlat |-> 1, qlon |-> 1, country |-> "Philippines", t |-> 7, wellformed |-> FALSE] ]

Ids == DOMAIN Catalogue

\* The worlds a run is checked in: the document the feed URL answers with
\* (the ids of "features", in feed order; ids are unique within a document),
\* the country filter toggle, whether the reverse geocoder answers, and the
\* refresh intervals the user may have entered besides the default.  The
\* geocoder's answer is read by the filter alone, so it varies only with the
\* toggle on; the interval is read by the sleep alone, so it varies with
\* one document.
Worlds ==
  { [feed |-> <<"s1", "s2">>,  filter |-> FALSE, geocoder |-> "up",   intervals |-> {}],
    [feed |-> <<"bad", "s1">>, filter |-> FALSE, geocoder |-> "up",   intervals |-> {}],
    [feed |-> <<"o1", "lo">>,  filter |-> FALSE, geocoder |-> "up",   intervals |-> {"1", "600"}],
    [feed |-> <<"f1", "w1">>,  filter |-> FALSE, geocoder |-> "up",   intervals |-> {}],
    [feed |-> <<"f1", "w1">>,  filter |-> TRUE,  geocoder |-> "up",   intervals |-> {}],
    [feed |-> <<"f1", "w1">>,  filter |-> TRUE,  geocoder |-> "down", intervals |-> {}] }

\* ------------------------------------------------------------ the settings

\* float(s) for the strings the entry fields hold in the model; a string
\* outside the domain makes float() raise ValueError.
FloatTable ==
  [ s \in {"0", "1", "300", "3.0", "60", "600", "0.0", "1.0", "2.0"} |->
      CASE s = "0"   -> 0
        [] s = "1"   -> 1
        [] s = "300" -> 300
        [] s = "3.0" -> 3
        [] s = "60"  -> 60
        [] s = "600" -> 600
        [] s = "0.0" -> 0
        [] s = "1.0" -> 1
        [] s = "2.0" -> 2 ]

\* str(x) for the float x of a resolved coordinate.
StrFloat(x) ==
  CASE x = 0 -> "0.0"
    [] x = 1 -> "1.0"
    [] x = 2 -> "2.0"

\* A magnitude of x in tenths.
Tenths(x) == 10 * x

IsFloat(s) == s \in DOMAIN FloatTable

ParseFloat(s) == FloatTable[s]

\* min(...) written for the max(...) of line 251.
Min(a, b) == IF a <= b THEN a ELSE b

Max(a, b) == IF a >= b THEN a ELSE b

Abs(x) == IF x >= 0 THEN x ELSE -x

\* The entry fields after _load_initial_config: the defaults, or the
\* defaults with one field that is not a number.
FieldNames == {"lat", "lon", "radius", "minmag", "interval"}

DefaultFields ==
  [lat |-> "1", lon |-> "1", radius |-> "300", minmag |-> "3.0", interval |-> "60"]

InitialFields ==
  {DefaultFields} \cup {[DefaultFields EXCEPT ![f] = "abc"] : f \in FieldNames}

\* haversine_km on the grid of the model.
haversine_km(lat1, lon1, lat2, lon2) ==
  100 * (Abs(lat2 - lat1) + Abs(lon2 - lon1))

\* qmag = f["properties"]["mag"] or 0
MagOrZero(m) == IF m = <<>> \/ m = <<0>> THEN 0 ELSE m[1]

VARIABLES
  stop_event,        \* threading.Event: TRUE when set
  seen_ids,          \* self.seen_ids
  chart_points,      \* self.chart_points, in append order
  tree,              \* rows of self.tree, top row first
  pending,           \* callbacks queued by self.after(0, ...), oldest first
  status,            \* self.status
  fields,            \* lat_var, lon_var, radius_var, minmag_var, interval_var
  filter_by_country, \* self.filter_by_country
  country_var,       \* self.country_var
  started,           \* number of calls of start()
  feed,              \* the document the feed URL answers with
  geocoder,          \* whether the reverse geocoder answers ("up") or fails
  pc,                \* position of each _loop thread
  loc,               \* locals of each _loop thread
  stopped,           \* history: live threads that a stop() has signalled
  treated,           \* history: ids taken as new or added since seen_ids was last reset
  beeps,             \* history: calls of winsound.Beep in the thread's cycle
  attempts,          \* history: fetch attempts of the thread's latest cycle
  located            \* history: what the last location handler resolved and raised

vars == <<stop_event, seen_ids, chart_points, tree, pending, status, fields,
          filter_by_country, country_var, started, feed, geocoder, pc, loc,
          stopped, treated, beeps, attempts, located>>

\* What no step of a _loop thread changes: the feed, the geocoder, the
\* settings, the count of start() calls and the record of the location
\* handlers.
world == <<feed, geocoder, fields, filter_by_country, country_var, started,
           located>>

\* Locals of _loop that no later statement reads.
DeadLocals ==
  [lat |-> 0, lon |-> 0, rad |-> 0, mag |-> 0, interval |-> 0,
   feats |-> <<>>, i |-> 0]

Alive(t) == pc[t] \notin {"idle", "done"}

InCycle(t) == pc[t] \in {"fetch", "for", "add", "alert", "beep"}

\* The record the thread's for statement is at.
Qid(t) == loc[t].feats[loc[t].i]

Cur(t) == Catalogue[Qid(t)]

Qmag(t) == MagOrZero(Cur(t).mag)

Dist(t) == haversine_km(loc[t].lat, loc[t].lon, Cur(t).qlat, Cur(t).qlon)

Init ==
  /\ stop_event = FALSE
  /\ seen_ids = {}
  /\ chart_points = <<>>
  /\ tree = <<>>
  /\ pending = <<>>
  /\ status = "Idle"
  /\ country_var = "Philippines"
  /\ started = 0
  /\ \E w \in Worlds :
       /\ fields \in InitialFields
            \cup {[DefaultFields EXCEPT !.interval = s] : s \in w.intervals}
       /\ feed = w.feed
       /\ filter_by_country = w.filter
       /\ geocoder = w.geocoder
  /\ pc = [t \in Threads |-> "idle"]
  /\ loc = [t \in Threads |-> DeadLocals]
  /\ stopped = {}
  /\ treated = {}
  /\ beeps = [t \in Threads |-> 0]
  /\ attempts = [t \in Threads |-> 0]
  /\ located = [ran |-> FALSE, result |-> <<>>, error |-> "none"]

\* ------------------------------------------------------------ Tk thread

\* start(), lines 222-226.
Start ==
  /\ started < MaxStarts
  /\ \E t \in Threads :
       /\ ~Alive(t)
       /\ \A u \in Threads : ~Alive(u) => t <= u
       /\ pc' = [pc EXCEPT ![t] = "loop"]
  /\ stop_event' = FALSE
  /\ seen_ids' = {}
  /\ chart_points' = <<>>
  /\ started' = started + 1
  /\ status' = "Monitoring"
  /\ treated' = {}
  /\ UNCHANGED <<feed, geocoder, fields, filter_by_country, country_var,
                 tree, pending, loc, stopped, beeps, attempts, located>>

\* stop(), line 228.
Stop ==
  /\ stop_event' = TRUE
  /\ status' = "Stopped"
  /\ stopped' = stopped \cup {t \in Threads : Alive(t)}
  /\ UNCHANGED <<world, seen_ids, chart_points, tree, pending, pc, loc,
                 treated, beeps, attempts>>

\* clear(), line 229.
Clear ==
  /\ tree' = <<>>
  /\ seen_ids' = {}
  /\ chart_points' = <<>>
  /\ treated' = {}
  /\ UNCHANGED <<world, stop_event, pending, status, pc, loc, stopped, beeps,
                 attempts>>

\* The Tk main loop runs the oldest callback _add_row queued:
\* self.tree.insert("", 0, values=vals).
AfterCallback ==
  /\ pending # <<>>
  /\ tree' = <<Head(pending)>> \o tree
  /\ pending' = Tail(pending)
  /\ UNCHANGED <<world, stop_event, seen_ids, chart_points, status, pc, loc,
                 stopped, treated, beeps, attempts>>

\* ------------------------------------------------- location handlers

\* The countries of the combobox in the model.
Countries == {"Philippines", "Japan"}

\* What get_coords_from_country and get_my_location can answer: a pair
\* <<lat, lon>> of the grid, or <<>> for (None, None) when the service
\* fails, answers nothing or raises inside the function.
Resolutions == {<<>>} \cup {<<la, lo>> : la \in 0..2, lo \in 0..2}

\* "if lat:", lines 214 and 218: false for None and for 0.0.
Truthy(res) == res # <<>> /\ res[1] # 0

\* The entry fields after "self.lat_var.set(str(lat));
\* self.lon_var.set(str(lon))" guarded by "if lat:".
Relocated(res) ==
  IF Truthy(res)
  THEN [fields EXCEPT !.lat = StrFloat(res[1]), !.lon = StrFloat(res[2])]
  ELSE fields

\* What the handlers leave alone: the monitoring state.
monitoring == <<stop_event, seen_ids, chart_points, tree, pending,
                filter_by_country, started, feed, geocoder, pc, loc, stopped,
                treated, beeps, attempts>>

\* _on_country, lines 212-214: the combobox has set country_var to c and
\* the geocoder answers res.
OnCountry ==
  \E c \in Countries, res \in Resolutions :
    /\ country_var' = c
    /\ fields' = Relocated(res)
    /\ located' = [ran |-> TRUE, result |-> res, error |-> "none"]
    /\ UNCHANGED <<monitoring, status>>

\* _use_my_location, lines 216-220: ipinfo answers res.  Line 219 formats
\* lat and lon with ":.2f", which raises TypeError for None; the exception
\* leaves the handler before the status is set.
UseMyLocation ==
  \E res \in Resolutions :
    /\ fields' = Relocated(res)
    /\ IF res = <<>>
       THEN /\ status' = status
            /\ located' = [ran |-> TRUE, result |-> res, error |-> "TypeError"]
       ELSE /\ status' = "Detected"
            /\ located' = [ran |-> TRUE, result |-> res, error |-> "none"]
    /\ UNCHANGED <<monitoring, country_var>>

LocationNext == OnCountry \/ UseMyLocation

\* The location handlers alone, from every initial state.
LocationSpec == Init /\ [][LocationNext]_vars

\* ------------------------------------------------------------ _loop

\* The thread leaves its cycle for time.sleep(interval), line 275, and is
\* next at the while test.  Its locals are dead there.
EndCycle(t) ==
  /\ pc' = [pc EXCEPT ![t] = "loop"]
  /\ loc' = [loc EXCEPT ![t] = DeadLocals]
  /\ beeps' = [beeps EXCEPT ![t] = 0]

\* The thread returns from _loop.
Exit(t) ==
  /\ pc' = [pc EXCEPT ![t] = "done"]
  /\ stopped' = stopped \ {t}
  /\ attempts' = [attempts EXCEPT ![t] = 0]
  /\ UNCHANGED <<loc, beeps>>

\* The try of lines 249-252 raises nothing.
SettingsValid == \A f \in FieldNames : IsFloat(fields[f])

\* while not self.stop_event.is_set(), line 248, found false.
LoopStopped(t) ==
  /\ pc[t] = "loop"
  /\ stop_event
  /\ Exit(t)
  /\ UNCHANGED <<world, stop_event, seen_ids, chart_points, tree, pending,
                 status, treated>>

\* Lines 248-252: the while test is true and the settings parse.
BeginCycle(t) ==
  /\ pc[t] = "loop"
  /\ ~stop_event
  /\ SettingsValid
  /\ pc' = [pc EXCEPT ![t] = "fetch"]
  /\ loc' = [loc EXCEPT ![t] =
       [DeadLocals EXCEPT !.lat = ParseFloat(fields.lat),
                          !.lon = ParseFloat(fields.lon),
                          !.rad = ParseFloat(fields.radius),
                          !.mag = Tenths(ParseFloat(fields.minmag)),
                          !.interval = Max(MinInterval, ParseFloat(fields.interval))]]
  /\ attempts' = [attempts EXCEPT ![t] = 0]
  /\ UNCHANGED <<world, stop_event, seen_ids, chart_points, tree, pending,
                 status, stopped, treated, beeps>>

\* Lines 248-252: the while test is true and a setting does not parse.
InvalidSettings(t) ==
  /\ pc[t] = "loop"
  /\ ~stop_event
  /\ ~SettingsValid
  /\ status' = "Invalid settings"
  /\ Exit(t)
  /\ UNCHANGED <<world, stop_event, seen_ids, chart_points, tree, pending,
                 treated>>

\* fetch_geojson(url), lines 64-68 and 254, answers with the document.
FetchOk(t) ==
  /\ pc[t] = "fetch"
  /\ loc' = [loc EXCEPT ![t].feats = feed, ![t].i = 1]
  /\ pc' = [pc EXCEPT ![t] = "for"]
  /\ attempts' = [attempts EXCEPT ![t] = attempts[t] + 1]
  /\ UNCHANGED <<world, stop_event, seen_ids, chart_points, tree, pending,
                 status, stopped, treated, beeps>>

\* A failed fetch handled as an empty session: the seen-set is dropped.
FetchFailResets(t) ==
  /\ pc[t] = "fetch"
  /\ status' = "FetchError"
  /\ seen_ids' = {}
  /\ EndCycle(t)
  /\ attempts' = [attempts EXCEPT ![t] = attempts[t] + 1]
  /\ UNCHANGED <<world, stop_event, chart_points, tree, pending, stopped,
                 treated>>

\* fetch_geojson(url) raises (urlopen, read or json.loads); line 274 reports
\* it and line 275 sleeps.
FetchFail(t) ==
  /\ pc[t] = "fetch"
  /\ status' = "FetchError"
  /\ EndCycle(t)
  /\ attempts' = [attempts EXCEPT ![t] = attempts[t] + 1]
  /\ UNCHANGED <<world, stop_event, seen_ids, chart_points, tree, pending,
                 stopped, treated>>

\* get_country(qlat, qlon), lines 72-78: the country of the place, or
\* "Unknown" when the reverse geocoder fails.
get_country(e) == IF geocoder = "up" THEN e.country ELSE "Unknown"

\* Lines 255-258 for a record whose keys are missing: KeyError, caught at
\* line 274; the rest of the document is not read.
RecordRaises(t) ==
  /\ pc[t] = "for"
  /\ loc[t].i <= Len(loc[t].feats)
  /\ ~Cur(t).wellformed
  /\ status' = "KeyError"
  /\ EndCycle(t)
  /\ UNCHANGED <<world, stop_event, seen_ids, chart_points, tree, pending,
                 stopped, treated, attempts>>

\* if self.filter_by_country.get() and cn != self.country_var.get(): continue
\* (lines 261-263): TRUE when the record gets past the continue.
PassesCountryFilter(t) ==
  ~(filter_by_country /\ get_country(Cur(t)) # country_var)

\* Line 265 with < and > for <= and >=.
InRangeStrict(t) == Dist(t) < loc[t].rad /\ Qmag(t) > loc[t].mag

\* dist<=rad and qmag>=mag, line 265.
InRange(t) == Dist(t) <= loc[t].rad /\ Qmag(t) >= loc[t].mag

\* Line 265 without its test of seen_ids.
IsNewIgnoringSeen(t) == InRange(t)

\* The whole condition of line 265, read against seen_ids as it is now.
IsNew(t) == InRange(t) /\ Qid(t) \notin seen_ids

\* Lines 255-265 for a well-formed record: the fields are read, the country
\* is looked up, the country filter may skip the record, and the condition
\* of line 265 decides whether the record is handled as a new one.
Evaluate(t) ==
  /\ pc[t] = "for"
  /\ loc[t].i <= Len(loc[t].feats)
  /\ Cur(t).wellformed
  /\ IF PassesCountryFilter(t) /\ IsNew(t)
     THEN /\ pc' = [pc EXCEPT ![t] = "add"]
          /\ loc' = loc
          /\ treated' = treated \cup {Qid(t)}
     ELSE /\ pc' = pc
          /\ loc' = [loc EXCEPT ![t].i = loc[t].i + 1]
          /\ treated' = treated
  /\ UNCHANGED <<world, stop_event, seen_ids, chart_points, tree, pending,
                 status, stopped, beeps, attempts>>

\* Line 269 with > for >=.
MeetsThresholdStrict(t) == Qmag(t) > alert_threshold

\* if qmag >= self.alert_threshold, line 269.
MeetsThreshold(t) == Qmag(t) >= alert_threshold

\* Lines 266-268: the id joins seen_ids, _add_row queues the insertion of
\* the row, and the chart point is appended.
AddRow(t) ==
  /\ pc[t] = "add"
  /\ Len(tree) + Len(pending) < MaxRows
  /\ seen_ids' = seen_ids \cup {Qid(t)}
  /\ pending' = Append(pending, Qid(t))
  /\ chart_points' = Append(chart_points, Qid(t))
  /\ pc' = [pc EXCEPT ![t] = "alert"]
  /\ treated' = treated \cup {Qid(t)}
  /\ UNCHANGED <<world, stop_event, tree, status, loc, stopped, beeps,
                 attempts>>

\* Line 269: the magnitude is compared with the alert threshold.
AlertTest(t) ==
  /\ pc[t] = "alert"
  /\ IF MeetsThreshold(t)
     THEN /\ pc' = [pc EXCEPT ![t] = "beep"]
          /\ loc' = loc
     ELSE /\ pc' = [pc EXCEPT ![t] = "for"]
          /\ loc' = [loc EXCEPT ![t].i = loc[t].i + 1]
  /\ UNCHANGED <<world, stop_event, seen_ids, chart_points, tree, pending,
                 status, stopped, treated, beeps, attempts>>

\* winsound.Beep(1000, 800), line 270, returns.
Beep(t) ==
  /\ pc[t] = "beep"
  /\ beeps' = [beeps EXCEPT ![t] = beeps[t] + 1]
  /\ pc' = [pc EXCEPT ![t] = "for"]
  /\ loc' = [loc EXCEPT ![t].i = loc[t].i + 1]
  /\ UNCHANGED <<world, stop_event, seen_ids, chart_points, tree, pending,
                 status, stopped, treated, attempts>>

\* winsound.Beep raises RuntimeError (no sound device), caught at line 274;
\* the rest of the document is not read.
BeepRaises(t) ==
  /\ pc[t] = "beep"
  /\ status' = "RuntimeError"
  /\ EndCycle(t)
  /\ UNCHANGED <<world, stop_event, seen_ids, chart_points, tree, pending,
                 stopped, treated, attempts>>

\* The for statement is exhausted: lines 272-273, then the sleep of line 275.
\* _render_map and _render_chart redraw from the table and chart_points and
\* change neither.
ForDone(t) ==
  /\ pc[t] = "for"
  /\ loc[t].i > Len(loc[t].feats)
  /\ status' = "Last update"
  /\ EndCycle(t)
  /\ UNCHANGED <<world, stop_event, seen_ids, chart_points, tree, pending,
                 stopped, treated, attempts>>

LoopStep(t) ==
  \/ LoopStopped(t)
  \/ BeginCycle(t)
  \/ InvalidSettings(t)
  \/ FetchOk(t)
  \/ FetchFail(t)
  \/ RecordRaises(t)
  \/ Evaluate(t)
  \/ AddRow(t)
  \/ AlertTest(t)
  \/ Beep(t)
  \/ BeepRaises(t)
  \/ ForDone(t)

Next ==
  \/ Start
  \/ Stop
  \/ Clear
  \/ AfterCallback
  \/ \E t \in Threads : LoopStep(t)

Spec == Init /\ [][Next]_vars

\* ------------------------------------------------------------ properties

\* The event id lies within the radius and at or above the minimum magnitude
\* of the entry fields, computed from the record and the fields themselves.
EventInRange(id) ==
  /\ 100 * (Abs(Catalogue[id].qlat - FloatTable[fields.lat])
            + Abs(Catalogue[id].qlon - FloatTable[fields.lon]))
       <= FloatTable[fields.radius]
  /\ (IF Catalogue[id].mag = <<>> THEN 0 ELSE Catalogue[id].mag[1])
       >= 10 * FloatTable[fields.minmag]

\* The country filter is off, or the geocoder answers and names the
\* selected country for the event id.
CountryLetsThrough(id) ==
  \/ ~filter_by_country
  \/ geocoder = "up" /\ Catalogue[id].country = country_var

\* The event id is in range and at or above the alert threshold of 5.5.
EventAlerts(id) ==
  /\ EventInRange(id)
  /\ Catalogue[id].mag # <<>>
  /\ Catalogue[id].mag[1] >= 55

\* This step is thread t deciding line 265 for a well-formed record.
Evaluates(t) ==
  /\ pc[t] = "for"
  /\ loc[t].i <= Len(loc[t].feats)
  /\ Cur(t).wellformed
  /\ \/ pc'[t] = "add"
     \/ pc'[t] = "for" /\ loc'[t].i = loc[t].i + 1

\* This step is thread t taking its record as new.
TakesAsNew(t) == Evaluates(t) /\ pc'[t] = "add"

\* This step ends a cycle of thread t whose fetch succeeded.
EndsFetchedCycle(t) ==
  pc[t] \in {"for", "add", "alert", "beep"} /\ pc'[t] = "loop"

\* This step is thread t reporting the failure of its fetch.
ReportsFetchFailure(t) == pc[t] = "fetch" /\ pc'[t] = "loop"

\* The number of rows of event id in the table or queued for it.
RowsOf(id) ==
  Cardinality({k \in 1..Len(tree) : tree[k] = id})
  + Cardinality({k \in 1..Len(pending) : pending[k] = id})

\* C1: unless start() or clear() resets it, seen_ids only grows, and a cycle
\* that evaluates an event whose id is already in seen_ids does not take it
\* as new; a row is queued (and later put in the table) and a beep is
\* sounded only for an event the thread took as new in the same cycle.
C1_SeenNotNewAgain ==
  [][ \/ /\ seen_ids \subseteq seen_ids'
         /\ \A t \in Threads :
              /\ (Evaluates(t) /\ Qid(t) \in seen_ids) => ~TakesAsNew(t)
              /\ (pc'[t] = "add" /\ pc[t] # "add") => TakesAsNew(t)
              /\ (pc'[t] = "alert" /\ pc[t] # "alert") => pc[t] = "add"
              /\ (pc'[t] = "beep" /\ pc[t] # "beep") => pc[t] = "alert"
              /\ beeps'[t] > beeps[t] => pc[t] = "beep"
         /\ pending' # pending =>
              \/ pending # <<>> /\ pending' = Tail(pending)
              \/ \E t \in Threads :
                   pc[t] = "add" /\ pending' = Append(pending, Qid(t))
         /\ tree' # tree =>
              pending # <<>> /\ tree' = <<Head(pending)>> \o tree
      \/ Start
      \/ Clear ]_vars

\* C1: the only loop is in its second cycle over the same feed and has
\* passed over an alerting event it had queued and added in its first cycle.
C1_Witness ==
  /\ started = 1
  /\ status = "Last update"
  /\ \E t \in Threads :
       /\ pc[t] = "for"
       /\ loc[t].i = 2
       /\ loc[t].feats[1] \in seen_ids
       /\ EventAlerts(loc[t].feats[1])
       /\ RowsOf(loc[t].feats[1]) = 1
       /\ beeps[t] = 0

\* C5: the step that reports a failed fetch sets the status to the error and
\* changes neither seen_ids nor the table (rows and queued rows) nor
\* chart_points, and neither does the step that began the cycle.
C5_FetchFailureKeepsState ==
  [][ \A t \in Threads :
        /\ ReportsFetchFailure(t) =>
             /\ status' = "FetchError"
             /\ UNCHANGED <<seen_ids, tree, pending, chart_points>>
        /\ (pc[t] = "loop" /\ pc'[t] = "fetch") =>
             UNCHANGED <<seen_ids, tree, pending, chart_points>> ]_vars

\* C5: a fetch failure has been reported while the seen-set, the table and
\* the chart held events of an earlier cycle.
C5_Witness ==
  /\ status = "FetchError"
  /\ seen_ids # {}
  /\ tree # <<>>
  /\ chart_points # <<>>
  /\ \E t \in Threads : pc[t] = "loop"

\* C2: at most one monitoring loop is inside a cycle at any time.
C2_CyclesNeverOverlap ==
  Cardinality({t \in Threads : InCycle(t)}) <= 1

\* C3: a loop that was running when stop() was called never begins another
\* cycle, whatever the user does afterwards.
C3_StoppedLoopBeginsNoCycle ==
  [][ \A t \in Threads :
        t \in stopped => ~(pc[t] = "loop" /\ pc'[t] = "fetch") ]_vars

\* C4: no id is taken as new twice without a reset of seen_ids in between:
\* a loop never takes as new an id that a loop has taken as new since the
\* last start() or clear().
C4_TestAndAddAtomic ==
  [][ \A t \in Threads : TakesAsNew(t) => Qid(t) \notin treated ]_vars

C7_InRangeSeenAtCycleEnd ==
  [][ \A t \in Threads :
        EndsFetchedCycle(t) =>
          \A j \in 1..Len(loc[t].feats) :
            (Catalogue[loc[t].feats[j]].wellformed
               /\ EventInRange(loc[t].feats[j]))
              => loc[t].feats[j] \in seen_ids' ]_vars

C9_EveryRecordEvaluated ==
  [][ \A t \in Threads :
        EndsFetchedCycle(t) => loc[t].i >= Len(loc[t].feats) ]_vars

\* C10: a cycle that reports a fetch failure has made exactly two fetch
\* attempts, the primary one and one fallback.
C10_OneFallbackAttempt ==
  [][ \A t \in Threads : ReportsFetchFailure(t) => attempts'[t] = 2 ]_vars

\* The status texts that name no entry field: every text the program sets.
GenericStatuses ==
  {"Idle", "Monitoring", "Stopped", "Invalid settings", "FetchError",
   "KeyError", "RuntimeError", "Last update", "Detected"}

\* This step is thread t finding, at the start of a cycle, an entry field
\* that is not a number.
AbortsOnSettings(t) ==
  /\ pc[t] = "loop"
  /\ pc'[t] # "loop"
  /\ ~stop_event
  /\ \E f \in FieldNames : fields[f] \notin DOMAIN FloatTable

\* C11: a cycle that finds an entry field that is not a number issues no
\* fetch, leaves seen_ids and the table as they are, and sets a status that
\* names the invalid field.
C11_InvalidFieldReported ==
  [][ \A t \in Threads :
        AbortsOnSettings(t) =>
          /\ pc'[t] # "fetch"
          /\ attempts'[t] = 0
          /\ UNCHANGED <<seen_ids, tree, pending>>
          /\ status' \notin GenericStatuses ]_vars

\* C12: a thread that has yet to compare the magnitude of its record with
\* the alert threshold (line 269) has not put the id of the record in
\* seen_ids.
C12_SeenOnlyAfterAlertTest ==
  \A t \in Threads : pc[t] = "alert" => Qid(t) \notin seen_ids

\* The place of event id in the document of the feed.
FeedPos(id) == CHOOSE k \in 1..Len(feed) : feed[k] = id

\* C13: when a cycle has ended with a success and every queued row is in
\* the table, the rows read from the top are in descending order of event
\* time, rows of equal time in feed order.
C13_TableNewestFirst ==
  (status = "Last update" /\ pending = <<>>
     /\ \A t \in Threads : ~InCycle(t))
  => \A k, l \in 1..Len(tree) :
       k < l =>
         \/ Catalogue[tree[k]].t > Catalogue[tree[l]].t
         \/ /\ Catalogue[tree[k]].t = Catalogue[tree[l]].t
            /\ FeedPos(tree[k]) <= FeedPos(tree[l])

\* The observer coordinate the entry fields hold, <<>> when they hold none.
Observer ==
  IF fields.lat \in DOMAIN FloatTable /\ fields.lon \in DOMAIN FloatTable
  THEN <<FloatTable[fields.lat], FloatTable[fields.lon]>>
  ELSE <<>>

\* C14: after a location handler whose resolution failed, the entry fields
\* hold the default coordinate (1, 1) and no exception has left the handler.
C14_FailureGivesFallback ==
  (located.ran /\ located.result = <<>>)
  => (Observer = <<1, 1>> /\ located.error = "none")

\* C19: after a location handler whose resolution gave a pair, the entry
\* fields hold exactly that pair.
C19_ResolvedPairStored ==
  (located.ran /\ located.result # <<>>) => Observer = located.result

\* The rows the window shows: the Treeview is packed whole and shows every
\* row it holds, in order.
DisplayedRows == tree

\* total_pages = max(1, ceil(L / S)).
TotalPages(L, S) ==
  IF (L + S - 1) \div S >= 1 THEN (L + S - 1) \div S ELSE 1

\* min(max(requested, 1), total_pages).
ClampPage(requested, L, S) ==
  IF requested < 1 THEN 1
  ELSE IF requested > TotalPages(L, S) THEN TotalPages(L, S)
  ELSE requested

\* Page p of the rows for page size S: rows (p-1)*S+1 .. p*S, clipped to
\* the rows there are.
PageSlice(rows, S, p) ==
  SubSeq(rows, (p - 1) * S + 1,
         IF p * S <= Len(rows) THEN p * S ELSE Len(rows))

\* C15: for every page size S, the rows shown are one page of the table cut
\* into pages of S rows: a page whose number is a requested number clamped
\* into 1..total_pages, holding S rows unless it is the last.
C15_DisplayPaginated ==
  \A S \in 1..MaxPageSize :
    \E requested \in 0..(TotalPages(Len(tree), S) + 1) :
      /\ DisplayedRows =
           PageSlice(tree, S, ClampPage(requested, Len(tree), S))
      /\ Len(DisplayedRows) <= S

\* This step is thread t leaving a cycle for the sleep of line 275.
GoesToSleep(t) == InCycle(t) /\ pc'[t] = "loop"

\* C16 as claimed: the sleep between two cycles of a loop lasts between 15
\* and 300 seconds.
C16_SleepWithinBounds ==
  [][ \A t \in Threads :
        GoesToSleep(t) => (loc[t].interval >= 15 /\ loc[t].interval <= 300)
    ]_vars

\* C16 as amended: the sleep between two cycles of a loop lasts at least 15
\* seconds, and as long as the interval entered when that is 15 or more.
C16_SleepAtLeastMinimum ==
  [][ \A t \in Threads :
        GoesToSleep(t) =>
          /\ loc[t].interval >= 15
          /\ FloatTable[fields.interval] >= 15 =>
               loc[t].interval = FloatTable[fields.interval] ]_vars

\* C16: a loop sleeps after a successful cycle run with an interval of 1
\* entered.
C16_Witness ==
  /\ fields.interval = "1"
  /\ status = "Last update"
  /\ \E t \in Threads : pc[t] = "loop"

\* C17: no event id is in more than one row of the table.
C17_NoDuplicateRows ==
  \A k, l \in 1..Len(tree) : tree[k] = tree[l] => k = l

\* C18: a beep sounds only for a record that is in range and at or above
\* the alert threshold, whose id is in seen_ids and whose row the thread has
\* queued.
C18_BeepOnlyForRecorded ==
  [][ \A t \in Threads :
        beeps'[t] > beeps[t] =>
          /\ EventAlerts(Qid(t))
          /\ Qid(t) \in seen_ids
          /\ Qid(t) \in treated ]_vars

====
